---- MODULE Spec2Model ----
(***************************************************************************)
(* Model of listen.py: the TranscriptionService (priority queue, dispatch  *)
(* loop, thread pool, futures) and the control loop of main() (segment     *)
(* emission, result polling, passive/active listening, finalization,       *)
(* periodic long transcription, temporary file cleanup, shutdown).         *)
(***************************************************************************)
EXTENDS Integers, Sequences, FiniteSets, TLC

(* ---------------------------------------------------------------- bounds *)
\* number of audio segments the control loop emits in a run
MaxSegments == 3
\* number of periodic long transcriptions submitted in a run
MaxLong == 1
\* --context-seconds given on the command line (default CONTEXT_DURATION)
ContextSeconds == 10
\* --transcription-threads given on the command line (default 2)
TranscriptionThreads == 1
\* number of tasks the clients of the service submit in a run of SvcSpec
MaxTasks == 4

(* ------------------------------------------------------ program constants *)
HIGH == 1
LOW == 2
BUFFER_DURATION == 5
SILENCE_DURATION == 3

\* the values --silence-seconds takes in the model: the default, and one that
\* is a multiple of BUFFER_DURATION
SilenceSecondsChoices == {SILENCE_DURATION, 2 * BUFFER_DURATION}

(* ------------------------------------------------------------ text values *)
\* Transcripts are sequences of characters.
EmptyText == << >>
OtherText == << "g", "o", "o", "s" >>
WakeText == << "a", "G", "o", "O", "S", "e" >>
Texts == { EmptyText, OtherText, WakeText }

\* str.lower() on the characters the model uses
LowerChar(c) ==
    CASE c = "G" -> "g"
      [] c = "O" -> "o"
      [] c = "S" -> "s"
      [] c = "E" -> "e"
      [] OTHER -> c

Lower(text) == [i \in 1..Len(text) |-> LowerChar(text[i])]

\* the Python substring test  sub in text
Contains(sub, text) ==
    \E k \in 0..(Len(text) - Len(sub)) :
        \A i \in 1..Len(sub) : text[k + i] = sub[i]

TriggerWord == << "g", "o", "o", "s", "e" >>

\* the pre-filter of contains_wake_word:  "goose" in text.lower()
HasTrigger(text) == Contains(TriggerWord, Lower(text))

\* a faulty pre-filter that lets every transcript through to the classifier
contains_wake_word_nofilter(text, answer) == [called |-> TRUE, value |-> answer]

\* contains_wake_word(text, classifier): whether classifier.classify is called,
\* and the value returned ("raise" when classify raises), answer being what
\* classifier.classify does for text when it is called
contains_wake_word(text, answer) ==
    IF HasTrigger(text)
    THEN [called |-> TRUE, value |-> answer]
    ELSE [called |-> FALSE, value |-> "false"]

\* " ".join(texts)
RECURSIVE Join(_)
Join(texts) ==
    IF texts = << >> THEN << >>
    ELSE IF Len(texts) = 1 THEN texts[1]
    ELSE texts[1] \o << " " >> \o Join(Tail(texts))

(* ------------------------------------------------------------- file names *)
NoAudio == 0
ChunkFile(n) == << "audio_chunk", n >>
PeriodicWav(n) == << "periodic_wav", n >>
PeriodicTxt(n) == << "periodic_txt", n >>

(* ------------------------------------------------------------ the records *)
\* a transcription result: the text and the audio file it was computed from
NoResult == [text |-> EmptyText, of |-> << "none", 0 >>]
Result(text, file) == [text |-> text, of |-> file]

\* chunk_info: the tuple (audio_data, temp_file, transcript)
ChunkInfo(audio, file, result) ==
    [audio |-> audio, file |-> file, transcript |-> result.text, of |-> result.of]

(* ------------------------------------------------------------- variables *)
VARIABLES
    \* TranscriptionService
    tasks,            \* every TranscriptionTask created, indexed by task id
    task_queue,       \* ids in the PriorityQueue
    dispatching,      \* id the dispatch loop has submitted but not yet registered, or 0
    pool_queue,       \* ids waiting in the ThreadPoolExecutor's work queue
    futures,          \* ids registered in self.futures
    svc_running,      \* self.running
    \* main
    running,          \* the global run flag
    pc,               \* position of the control loop
    silence_seconds,  \* args.silence_seconds
    context_buffer,
    active_conversation_chunks,
    is_active_listening,
    silence_counter,
    conversation_counter,
    pending_tasks,    \* the dict, in insertion order
    completed_tasks,
    poll_idx,         \* position of the iteration over pending_tasks
    temp_file,
    current_is_silence,
    segments,         \* number of segments emitted so far
    longs,            \* number of periodic transcriptions submitted so far
    long_due,         \* what the test of line 511 found in this tick
    \* collaborators and file system
    last_classify,    \* the last call of the wake classifier in this tick, its answer
    temp_files,       \* the files that exist in temp_dir
    recordings,       \* the periodic files that exist in recordings_dir
    conversation_file, \* what the last finalization of this tick wrote
    error             \* the except clause of main has caught an exception

svc_vars == << tasks, task_queue, dispatching, pool_queue, futures, svc_running >>
conv_vars == << context_buffer, active_conversation_chunks, is_active_listening,
                silence_counter, conversation_counter, conversation_file >>
loop_vars == << pending_tasks, completed_tasks, poll_idx, temp_file,
                current_is_silence, segments, longs, long_due >>
vars == << svc_vars, conv_vars, loop_vars, running, pc, silence_seconds,
           last_classify, temp_files, recordings, error >>

(* ------------------------------------------------- TranscriptionService *)
\* TranscriptionTask.__lt__ with the comparison of the priorities inverted
TaskLT_inverted(a, b) ==
    IF a.priority # b.priority
    THEN a.priority > b.priority
    ELSE a.timestamp < b.timestamp

\* TranscriptionTask.__lt__ with the comparison of the timestamps inverted
TaskLT_newest_first(a, b) ==
    IF a.priority # b.priority
    THEN a.priority < b.priority
    ELSE a.timestamp > b.timestamp

\* TranscriptionTask.__lt__
TaskLT(a, b) ==
    IF a.priority # b.priority
    THEN a.priority < b.priority
    ELSE a.timestamp < b.timestamp

\* what PriorityQueue.get may return: an element no other element is less than
QueueHeads(q) == { t \in q : \A u \in q : ~TaskLT(tasks[u], tasks[t]) }

Executing == { t \in 1..Len(tasks) : tasks[t].status = "running" }

\* the tasks no pool thread has begun to execute
Unstarted == { t \in 1..Len(tasks) : tasks[t].status \in {"queued", "pool"} }

\* the LOW tasks a task submitted now finds waiting for a pool thread while
\* every pool thread is executing a task
WaitingLow ==
    IF Cardinality(Executing) = TranscriptionThreads
    THEN { t \in Unstarted : tasks[t].priority = LOW }
    ELSE {}

\* TranscriptionTask.__init__ and the state of its future
NewTask(file, priority, id) ==
    [audio_file |-> file, priority |-> priority, timestamp |-> id,
     status |-> "queued", readable |-> FALSE,
     found_waiting |-> IF priority = HIGH THEN WaitingLow ELSE {}]

\* submit_task: the new task's id, the service state after the put
NextTaskId == Len(tasks) + 1

\* get_result keyed by another task's id
get_result_any(task_id) ==
    IF \E t \in futures : tasks[t].status = "done"
    THEN (CHOOSE t \in futures : tasks[t].status = "done")
    ELSE 0

\* get_result(task_id, timeout): the id whose future's result is returned, 0
\* for None.  self.results is never written, so the lookup of line 125 never hits.
get_result(task_id) ==
    IF task_id \in futures /\ tasks[task_id].status = "done" THEN task_id ELSE 0

\* future.result() without a timeout: the call ends when the future is done
ResultWaitEnds_no_timeout(task_id) ==
    task_id \notin futures \/ tasks[task_id].status = "done"

\* whether the call get_result(task_id, timeout=0.01) ends in the state at
\* hand: future.result(timeout) returns or raises TimeoutError when the timeout
\* is over, and a task without a future gets None at once
ResultWaitEnds(task_id) ==
    task_id \notin futures \/ tasks[task_id].status \in
        {"queued", "pool", "running", "done", "retrieved"}

NoCall == [text |-> EmptyText, answer |-> "none"]
NoConversation == [audio |-> << >>, transcript |-> << >>]

Init ==
    /\ tasks = << >>
    /\ task_queue = {}
    /\ dispatching = 0
    /\ pool_queue = << >>
    /\ futures = {}
    /\ svc_running = TRUE
    /\ running = TRUE
    /\ pc = "collect"
    /\ silence_seconds \in SilenceSecondsChoices
    /\ context_buffer = << >>
    /\ active_conversation_chunks = << >>
    /\ is_active_listening = FALSE
    /\ silence_counter = 0
    /\ conversation_counter = 0
    /\ pending_tasks = << >>
    /\ completed_tasks = << >>
    /\ poll_idx = 0
    /\ temp_file = << "none", 0 >>
    /\ current_is_silence = FALSE
    /\ segments = 0
    /\ longs = 0
    /\ long_due = FALSE
    /\ last_classify = NoCall
    /\ temp_files = {}
    /\ recordings = {}
    /\ conversation_file = NoConversation
    /\ error = FALSE

\* _worker_loop, first half: take the least task of the priority queue and
\* submit it to the thread pool, whatever the pool is doing
DispatchTake ==
    /\ svc_running
    /\ dispatching = 0
    /\ \E t \in QueueHeads(task_queue) :
        /\ task_queue' = task_queue \ {t}
        /\ pool_queue' = Append(pool_queue, t)
        /\ tasks' = [tasks EXCEPT ![t].status = "pool"]
        /\ dispatching' = t
    /\ UNCHANGED << futures, svc_running, conv_vars, loop_vars, running, pc,
                    silence_seconds, last_classify, temp_files,
                    recordings, error >>

\* a dispatch loop that does not store the future
DispatchRegister_forgets ==
    /\ dispatching # 0
    /\ dispatching' = 0
    /\ UNCHANGED << tasks, task_queue, pool_queue, futures, svc_running, conv_vars,
                    loop_vars, running, pc, silence_seconds,
                    last_classify, temp_files, recordings, error >>

\* _worker_loop, second half: self.futures[task.task_id] = future
DispatchRegister ==
    /\ dispatching # 0
    /\ futures' = futures \cup {dispatching}
    /\ dispatching' = 0
    /\ UNCHANGED << tasks, task_queue, pool_queue, svc_running, conv_vars,
                    loop_vars, running, pc, silence_seconds,
                    last_classify, temp_files, recordings, error >>

\* a pool thread takes the oldest work item of the executor's queue and
\* _transcribe_task opens the audio file
WorkerStart ==
    /\ pool_queue # << >>
    /\ Cardinality(Executing) < TranscriptionThreads
    /\ LET t == Head(pool_queue) IN
        tasks' = [tasks EXCEPT ![t].status = "running",
                               ![t].readable =
                                   tasks[t].audio_file \in (temp_files \cup recordings)]
    /\ pool_queue' = Tail(pool_queue)
    /\ UNCHANGED << task_queue, dispatching, futures, svc_running, conv_vars,
                    loop_vars, running, pc, silence_seconds,
                    last_classify, temp_files, recordings, error >>

\* the texts _transcribe_task may return for task t: the stripped text of the
\* collaborator, or "" when transcribe raised (always so without the file)
ResultTexts(t) == IF tasks[t].readable THEN Texts ELSE {EmptyText}

\* _transcribe_task returns and the future is done.  Nothing reads the text
\* until future.result() hands it out, so the model draws it there.
WorkerFinish ==
    \E t \in Executing :
        /\ tasks' = [tasks EXCEPT ![t].status = "done"]
        /\ UNCHANGED << task_queue, dispatching, pool_queue, futures, svc_running,
                        conv_vars, loop_vars, running, pc, silence_seconds,
                        last_classify, temp_files, recordings, error >>

\* signal_handler.  The loop reads the flag in its collection window only (lines
\* 329, 334 and 341), so a signal that arrives later in a tick acts as one that
\* arrives in the next window.
Signal ==
    /\ running
    /\ pc = "collect"
    /\ running' = FALSE
    /\ UNCHANGED << svc_vars, conv_vars, loop_vars, pc, silence_seconds,
                    last_classify, temp_files, recordings, error >>

\* one collection window with audio: save the chunk, submit it with HIGH
\* priority, add the pending record, start the iteration over pending_tasks
Emit ==
    /\ pc = "collect"
    /\ running
    /\ segments < MaxSegments
    /\ LET n == segments + 1
           id == NextTaskId
       IN
        /\ segments' = n
        /\ temp_file' = ChunkFile(n)
        /\ temp_files' = temp_files \cup {ChunkFile(n)}
        /\ current_is_silence' \in BOOLEAN
        /\ tasks' = Append(tasks, NewTask(ChunkFile(n), HIGH, id))
        /\ task_queue' = task_queue \cup {id}
        /\ pending_tasks' = Append(pending_tasks,
               [task_id |-> id, chunk_info |-> ChunkInfo(n, ChunkFile(n), NoResult),
                processed |-> FALSE, is_long |-> FALSE, long_timestamp |-> 0,
                is_silence |-> current_is_silence'])
    /\ completed_tasks' = << >>
    /\ poll_idx' = 1
    /\ pc' = "poll"
    /\ last_classify' = NoCall
    /\ conversation_file' = NoConversation
    /\ UNCHANGED << dispatching, pool_queue, futures, svc_running, context_buffer,
                    active_conversation_chunks, is_active_listening, silence_counter,
                    conversation_counter, longs, long_due, running,
                    silence_seconds, recordings, error >>

\* while running: is false
ExitLoop ==
    /\ pc = "collect"
    /\ ~running
    /\ pc' = "finally"
    /\ UNCHANGED << svc_vars, conv_vars, loop_vars, running, silence_seconds,
                    last_classify, temp_files, recordings, error >>


(* ------------------------------------------------------- the control loop *)
ClassifierAnswers == { "true", "false", "raise" }

Range(seq) == { seq[i] : i \in 1..Len(seq) }

\* context_chunks = int(args.context_seconds / BUFFER_DURATION)
ContextChunks == ContextSeconds \div BUFFER_DURATION

\* deque(maxlen = context_chunks).append with the oldest element kept
DequeAppend_keep_oldest(buf, x) ==
    IF Len(buf) < ContextChunks THEN Append(buf, x) ELSE buf

\* deque(maxlen = context_chunks).append
DequeAppend(buf, x) ==
    IF ContextChunks = 0 THEN << >>
    ELSE IF Len(buf) = ContextChunks THEN Append(Tail(buf), x)
    ELSE Append(buf, x)

\* args.silence_seconds // BUFFER_DURATION
SilenceThreshold == silence_seconds \div BUFFER_DURATION

Audios(chunks) == [i \in 1..Len(chunks) |-> chunks[i].audio]
Files(chunks) == { chunks[i].file : i \in 1..Len(chunks) }
IsNonEmpty(chunk) == chunk.transcript # EmptyText
Transcripts(chunks) ==
    LET kept == SelectSeq(chunks, IsNonEmpty)
    IN [i \in 1..Len(kept) |-> kept[i].transcript]

\* np.concatenate raises on a list that holds None
ConcatenateRaises(audio) == NoAudio \in Range(audio)

\* a finalization that leaves the conversation record and the silence counter
\* as they are
FinalizeConversation_no_reset(state, all_audio, all_transcripts) ==
    [state EXCEPT
        !.is_active_listening = FALSE,
        !.conversation_counter = state.conversation_counter + 1,
        !.conversation_file =
            [audio |-> all_audio, transcript |-> Join(all_transcripts)]]

\* a finalization that empties the context buffer too
FinalizeConversation_clears_context(state, all_audio, all_transcripts) ==
    [state EXCEPT
        !.context_buffer = << >>,
        !.active_conversation_chunks = << >>,
        !.is_active_listening = FALSE,
        !.silence_counter = 0,
        !.conversation_counter = state.conversation_counter + 1,
        !.conversation_file =
            [audio |-> all_audio, transcript |-> Join(all_transcripts)]]

\* lines 424-457: save the conversation, count it, reset for the next one
FinalizeConversation(state, all_audio, all_transcripts) ==
    [state EXCEPT
        !.active_conversation_chunks = << >>,
        !.is_active_listening = FALSE,
        !.silence_counter = 0,
        !.conversation_counter = state.conversation_counter + 1,
        !.conversation_file =
            [audio |-> all_audio, transcript |-> Join(all_transcripts)]]

\* the active branch of the result loop: the conversation state after a
\* completed chunk, and whether an exception left the loop
ActiveBranch(chunk) ==
    LET chunks == Append(active_conversation_chunks, chunk)
        counter == IF current_is_silence THEN silence_counter + 1 ELSE 0
        all_audio == Audios(context_buffer) \o Audios(chunks)
        all_transcripts == Transcripts(context_buffer) \o Transcripts(chunks)
        stay == [context_buffer |-> context_buffer,
                 active_conversation_chunks |-> chunks,
                 is_active_listening |-> TRUE,
                 silence_counter |-> counter,
                 conversation_counter |-> conversation_counter,
                 conversation_file |-> conversation_file,
                 crash |-> FALSE]
    IN  IF counter >= SilenceThreshold
        THEN IF ConcatenateRaises(all_audio)
             THEN [stay EXCEPT !.crash = TRUE]
             ELSE FinalizeConversation(stay, all_audio, all_transcripts)
        ELSE stay

\* a conversation that starts without the context
SeedConversation_without_context(buffer) == << >>

\* list(context_buffer): a new list of the buffer's elements, oldest first
SeedConversation(buffer) == [i \in 1..Len(buffer) |-> buffer[i]]

\* the passive branch of the result loop
PassiveBranch(chunk, answer, details_ok) ==
    LET buffer == DequeAppend(context_buffer, chunk)
        text == chunk.transcript
        check == IF text # EmptyText
                 THEN contains_wake_word(text, answer)
                 ELSE [called |-> FALSE, value |-> "false"]
        stay == [context_buffer |-> buffer,
                 active_conversation_chunks |-> active_conversation_chunks,
                 is_active_listening |-> FALSE,
                 silence_counter |-> silence_counter,
                 conversation_counter |-> conversation_counter,
                 conversation_file |-> conversation_file,
                 crash |-> FALSE]
    IN  IF check.value = "raise" THEN [stay EXCEPT !.crash = TRUE]
        ELSE IF check.value = "true"
        THEN IF details_ok
             THEN [stay EXCEPT !.is_active_listening = TRUE,
                               !.active_conversation_chunks = SeedConversation(buffer),
                               !.silence_counter = 0]
             ELSE [stay EXCEPT !.crash = TRUE]
        ELSE stay

\* the call of classifier.classify the passive branch makes for chunk, if any
ClassifyCall(chunk, answer) ==
    IF chunk.transcript # EmptyText /\ contains_wake_word(chunk.transcript, answer).called
    THEN [text |-> chunk.transcript, answer |-> answer]
    ELSE last_classify

\* one iteration of the loop over pending_tasks.items()
PollNext ==
    /\ pc = "poll"
    /\ poll_idx <= Len(pending_tasks)
    /\ pending_tasks[poll_idx].processed
          \/ ResultWaitEnds(pending_tasks[poll_idx].task_id)
    /\ LET e == pending_tasks[poll_idx]
           got == IF e.processed THEN 0 ELSE get_result(e.task_id)
       IN  IF got = 0
           THEN /\ poll_idx' = poll_idx + 1
                /\ UNCHANGED << tasks, futures, temp_file, pending_tasks, completed_tasks,
                                conv_vars, last_classify, pc, error >>
           ELSE \E text \in ResultTexts(got) :
                LET chunk == ChunkInfo(e.chunk_info.audio, e.chunk_info.file,
                                       Result(text, tasks[got].audio_file))
                IN  /\ futures' = futures \ {e.task_id}
                    /\ tasks' = [tasks EXCEPT ![got].status = "retrieved"]
                    /\ temp_file' = e.chunk_info.file
                    /\ pending_tasks' = [pending_tasks EXCEPT
                                           ![poll_idx].chunk_info = chunk,
                                           ![poll_idx].processed = TRUE]
                    /\ completed_tasks' = Append(completed_tasks, e.task_id)
                    /\ \E answer \in ClassifierAnswers, details_ok \in BOOLEAN :
                        LET r == IF is_active_listening
                                 THEN ActiveBranch(chunk)
                                 ELSE PassiveBranch(chunk, answer, details_ok)
                        IN  /\ context_buffer' = r.context_buffer
                            /\ active_conversation_chunks' = r.active_conversation_chunks
                            /\ is_active_listening' = r.is_active_listening
                            /\ silence_counter' = r.silence_counter
                            /\ conversation_counter' = r.conversation_counter
                            /\ conversation_file' = r.conversation_file
                            /\ last_classify' = IF is_active_listening
                                                THEN last_classify
                                                ELSE ClassifyCall(chunk, answer)
                            /\ error' = r.crash
                            /\ pc' = IF r.crash THEN "finally" ELSE "poll"
                            /\ poll_idx' = IF r.crash THEN poll_idx ELSE poll_idx + 1
    /\ UNCHANGED << task_queue, dispatching, pool_queue, svc_running,
                    current_is_silence, segments, longs, long_due, running,
                    silence_seconds, temp_files, recordings >>

IsCompleted(e) == e.task_id \in Range(completed_tasks)
IsPendingStill(e) == ~IsCompleted(e)

\* clean up completed tasks: pending_tasks after the loop over completed_tasks
CleanCompleted == SelectSeq(pending_tasks, IsPendingStill)

\* the timer check without the test of the listening state
PeriodicFires_in_any_state(due) == due /\ context_buffer # << >>

\* whether the timer check submits a periodic transcription, due being
\* current_time - last_long_transcription_time >= LONG_BUFFER_DURATION
PeriodicFires(due) == due /\ context_buffer # << >> /\ ~is_active_listening

\* The end of the loop over pending_tasks, the deletion of the completed tasks
\* and the periodic long transcription check.  Collection windows without audio
\* skip the check, so any amount of time may have gone by when line 510 reads
\* the clock: due is an input.
PeriodicTimer ==
    /\ pc = "poll"
    /\ poll_idx > Len(pending_tasks)
    /\ \E due \in BOOLEAN :
        /\ long_due' = due
        /\ IF PeriodicFires(due) /\ ConcatenateRaises(Audios(context_buffer))
           THEN /\ pc' = "finally"
                /\ error' = TRUE
                /\ pending_tasks' = CleanCompleted
                /\ UNCHANGED << tasks, task_queue, longs, recordings >>
           ELSE /\ pc' = "long"
                /\ UNCHANGED error
                /\ IF PeriodicFires(due)
                   THEN /\ longs < MaxLong
                        /\ LET n == longs + 1
                               id == NextTaskId
                           IN  /\ longs' = n
                               /\ recordings' = recordings \cup {PeriodicWav(n)}
                               /\ tasks' = Append(tasks, NewTask(PeriodicWav(n), LOW, id))
                               /\ task_queue' = task_queue \cup {id}
                               /\ pending_tasks' = Append(CleanCompleted,
                                      [task_id |-> id,
                                       chunk_info |-> ChunkInfo(NoAudio, PeriodicWav(n), NoResult),
                                       processed |-> FALSE, is_long |-> TRUE,
                                       long_timestamp |-> n, is_silence |-> FALSE])
                   ELSE /\ pending_tasks' = CleanCompleted
                        /\ UNCHANGED << tasks, task_queue, longs, recordings >>
    \* poll_idx and current_is_silence are not read again in this tick
    /\ poll_idx' = 0
    /\ current_is_silence' = FALSE
    /\ UNCHANGED << dispatching, pool_queue, futures, svc_running, conv_vars,
                    completed_tasks, temp_file, segments, running, silence_seconds,
                    last_classify, temp_files >>

\* the entries the loop over the long tasks finds resolved
LongReady ==
    { i \in 1..Len(pending_tasks) :
        /\ pending_tasks[i].is_long
        /\ ~pending_tasks[i].processed
        /\ get_result(pending_tasks[i].task_id) # 0 }

\* whether the end of the tick removes temp_file
TempFileUnused ==
    /\ temp_file \notin Files(context_buffer)
    /\ temp_file \notin Files(active_conversation_chunks)

\* The rest of the tick: process the completed long transcription tasks, then
\* clean up the temporary file if it is not in use.
FinishTick ==
    /\ pc = "long"
    /\ \A i \in 1..Len(pending_tasks) :
          (pending_tasks[i].is_long /\ ~pending_tasks[i].processed)
              => ResultWaitEnds(pending_tasks[i].task_id)
    /\ pending_tasks' = [i \in 1..Len(pending_tasks) |->
                            IF i \in LongReady
                            THEN [pending_tasks[i] EXCEPT !.processed = TRUE]
                            ELSE pending_tasks[i]]
    /\ futures' = futures \ { pending_tasks[i].task_id : i \in LongReady }
    /\ tasks' = [t \in 1..Len(tasks) |->
                    IF \E i \in LongReady : pending_tasks[i].task_id = t
                    THEN [tasks[t] EXCEPT !.status = "retrieved"]
                    ELSE tasks[t]]
    /\ LET written == { PeriodicTxt(pending_tasks[i].long_timestamp) : i \in LongReady }
       IN  IF TempFileUnused
           THEN /\ temp_files' = temp_files \ {temp_file}
                /\ recordings' = (recordings \cup written) \ {temp_file}
           ELSE /\ recordings' = recordings \cup written
                /\ UNCHANGED temp_files
    \* completed_tasks.append(task_id): the list is not read again before line
    \* 372 replaces it, so these entries stay in pending_tasks; temp_file is
    \* assigned anew at line 349
    /\ completed_tasks' = << >>
    /\ temp_file' = << "none", 0 >>
    /\ long_due' = FALSE
    /\ pc' = "collect"
    /\ UNCHANGED << task_queue, dispatching, pool_queue, svc_running, conv_vars,
                    poll_idx, current_is_silence, segments, longs, running,
                    silence_seconds, last_classify, error >>

\* lines 595-605: remove the files the two buffers refer to
RemoveReferenced(files) ==
    files \ (Files(context_buffer) \cup Files(active_conversation_chunks))

\* lines 608-612: remove every file os.listdir(temp_dir) returns
RemoveListed(files) == { f \in files : f \notin files }

\* the cleanup without the pass over temp_dir
CleanupTemporaryFiles_referenced_only(files) == RemoveReferenced(files)

\* the files of temp_dir the two cleanup passes of the finally block leave
CleanupTemporaryFiles(files) == RemoveListed(RemoveReferenced(files))

\* the finally block: shut the service down (shutdown joins the dispatch thread
\* for at most a second and does not wait for the pool), remove the temporary
\* files
Finally ==
    /\ pc = "finally"
    /\ svc_running' = FALSE
    /\ temp_files' = CleanupTemporaryFiles(temp_files)
    /\ pc' = "done"
    /\ recordings' = recordings \ (Files(context_buffer)
                                       \cup Files(active_conversation_chunks))
    /\ UNCHANGED << tasks, task_queue, dispatching, pool_queue, futures, conv_vars,
                    loop_vars, running, silence_seconds, last_classify, error >>

Next ==
    \/ DispatchTake
    \/ DispatchRegister
    \/ WorkerStart
    \/ WorkerFinish
    \/ Signal
    \/ Emit
    \/ ExitLoop
    \/ PollNext
    \/ PeriodicTimer
    \/ FinishTick
    \/ Finally

Spec == Init /\ [][Next]_vars

(* ------------------------------------- the service under any client *)
\* submit_task called by a client, with either priority, at any moment; the
\* audio file of the task exists
ClientSubmit ==
    /\ Len(tasks) < MaxTasks
    /\ \E priority \in {HIGH, LOW} :
        LET id == NextTaskId
            file == IF priority = HIGH THEN ChunkFile(id) ELSE PeriodicWav(id)
        IN  /\ tasks' = Append(tasks, NewTask(file, priority, id))
            /\ task_queue' = task_queue \cup {id}
            /\ temp_files' = IF priority = HIGH THEN temp_files \cup {file}
                                                ELSE temp_files
            /\ recordings' = IF priority = LOW THEN recordings \cup {file}
                                               ELSE recordings
    /\ UNCHANGED << dispatching, pool_queue, futures, svc_running, conv_vars,
                    loop_vars, running, pc, silence_seconds, last_classify, error >>

\* get_result called by a client for any task id, at any moment, when it returns
\* a text (a call that returns None changes nothing)
ClientPoll ==
    /\ \E id \in 1..Len(tasks) :
        /\ ResultWaitEnds(id)
        /\ get_result(id) # 0
        /\ futures' = futures \ {id}
        /\ tasks' = [tasks EXCEPT ![get_result(id)].status = "retrieved"]
    /\ UNCHANGED << task_queue, dispatching, pool_queue, svc_running, conv_vars,
                    loop_vars, running, pc, silence_seconds, last_classify,
                    temp_files, recordings, error >>

SvcNext ==
    \/ DispatchTake
    \/ DispatchRegister
    \/ WorkerStart
    \/ WorkerFinish
    \/ ClientSubmit
    \/ ClientPoll

\* The service without shutdown.  The dispatch thread and the pool threads keep
\* running and every call of the transcription collaborator returns; nothing
\* is assumed of the clients.
SvcSpec ==
    /\ Init
    /\ [][SvcNext]_vars
    /\ WF_vars(DispatchTake)
    /\ WF_vars(DispatchRegister)
    /\ WF_vars(WorkerStart)
    /\ WF_vars(WorkerFinish)


(* ------------------------------------------------------------ the claims *)
IsStarted(task) == task.status \in {"running", "done", "retrieved"}

\* ceil(a / b) for positive b
CeilDiv(a, b) == (a + b - 1) \div b

\* the pending records a step resolves
Resolved(i) ==
    /\ i \in 1..Len(pending_tasks)
    /\ ~pending_tasks[i].processed
    /\ i \in 1..Len(pending_tasks')
    /\ pending_tasks'[i].task_id = pending_tasks[i].task_id
    /\ pending_tasks'[i].processed

\* C1: the state goes from ACTIVE to PASSIVE only when a silent segment brings
\* the silence counter to ceil(silence_seconds / BUFFER_DURATION); below that
\* number, and after a non-silent segment, it stays ACTIVE.
C1_FinalizeAtCeil ==
    [][ (is_active_listening /\ ~is_active_listening')
          => /\ current_is_silence
             /\ silence_counter + 1 >= CeilDiv(silence_seconds, BUFFER_DURATION) ]_vars

\* C2: a PASSIVE to ACTIVE transition happens only on a resolved transcript that
\* contains "goose" (case-insensitive) and that the classifier answered
\* positively; a transcript without it (the empty one too) causes no transition
\* and no call of the classifier.
C2_WakeOnlyOnTrigger ==
    [][ /\ (~is_active_listening /\ is_active_listening')
            => \E i \in 1..Len(pending_tasks) :
                  /\ Resolved(i)
                  /\ HasTrigger(pending_tasks'[i].chunk_info.transcript)
                  /\ last_classify' = [text |-> pending_tasks'[i].chunk_info.transcript,
                                       answer |-> "true"]
        /\ \A i \in 1..Len(pending_tasks) :
              (Resolved(i) /\ ~HasTrigger(pending_tasks'[i].chunk_info.transcript))
                  => /\ is_active_listening' => is_active_listening
                     /\ last_classify' = last_classify ]_vars

\* C2 witness: a transcript with the trigger word in mixed case woke the loop
C2_Witness ==
    /\ is_active_listening
    /\ last_classify = [text |-> WakeText, answer |-> "true"]
    /\ \E i \in 1..Len(context_buffer) : context_buffer[i].transcript = OtherText

\* segment records in the order in which the segments were created
InCreationOrder(chunks) ==
    \A i, j \in 1..Len(chunks) :
        (i < j /\ chunks[i].audio # NoAudio /\ chunks[j].audio # NoAudio)
            => chunks[i].audio < chunks[j].audio

\* C3: the records of the context buffer and of the conversation record are in
\* segment creation order.
C3_CreationOrder ==
    /\ InCreationOrder(context_buffer)
    /\ InCreationOrder(active_conversation_chunks)

\* C4: the transcript stored in a segment record is the result of the task that
\* was submitted for that record's audio file.
C4_TranscriptOfOwnAudio ==
    /\ \A i \in 1..Len(context_buffer) :
          context_buffer[i].of = context_buffer[i].file
    /\ \A i \in 1..Len(active_conversation_chunks) :
          active_conversation_chunks[i].of = active_conversation_chunks[i].file
    /\ \A i \in 1..Len(pending_tasks) :
          (pending_tasks[i].processed /\ ~pending_tasks[i].is_long)
              => pending_tasks[i].chunk_info.of = pending_tasks[i].chunk_info.file

\* C4 witness: a later segment's transcript was stored before an earlier one's
C4_Witness ==
    /\ Len(context_buffer) = 2
    /\ context_buffer[1].audio = 2
    /\ context_buffer[2].audio = 1
    /\ context_buffer[1].transcript = OtherText
    /\ context_buffer[2].transcript = WakeText

\* C5: when a LOW task is handed to the thread pool, no HIGH task that was
\* submitted before it is still in the priority queue.
C5_HighBeforeLow ==
    [][ \A l \in 1..Len(tasks) :
          (tasks[l].priority = LOW /\ tasks[l].status = "queued"
             /\ tasks'[l].status = "pool")
              => \A h \in 1..(l - 1) :
                    tasks[h].priority = HIGH => tasks[h].status # "queued" ]_vars

\* C5 witness: a HIGH task and a LOW task submitted after it have both been
\* handed to the thread pool, the HIGH one first, and neither has started
C5_Witness ==
    \E h, l \in 1..Len(tasks) :
        /\ h < l
        /\ tasks[h].priority = HIGH
        /\ tasks[l].priority = LOW
        /\ pool_queue = << h, l >>

\* C6: a HIGH task submitted while every pool thread is busy starts executing
\* before the LOW tasks that were then waiting to start.
C6_HighWinsNextSlot ==
    [][ \A l \in 1..Len(tasks) :
          (~IsStarted(tasks[l]) /\ IsStarted(tasks'[l]))
              => \A h \in 1..Len(tasks) :
                    l \in tasks[h].found_waiting => IsStarted(tasks[h]) ]_vars

\* floor(ContextSeconds / BUFFER_DURATION)
FloorChunks ==
    CHOOSE n \in 0..ContextSeconds :
        /\ n * BUFFER_DURATION <= ContextSeconds
        /\ (n + 1) * BUFFER_DURATION > ContextSeconds

\* C7: the context buffer holds at most floor(ContextSeconds / BUFFER_DURATION)
\* records; the append of a record to a full buffer removes the oldest record
\* and keeps the others in order, the append to any other buffer keeps them all;
\* nothing else changes the buffer.
C7_BoundedWindow ==
    /\ [](Len(context_buffer) <= FloorChunks)
    /\ [][ \A i \in 1..Len(pending_tasks) :
             (pc = "poll" /\ Resolved(i) /\ ~is_active_listening)
                => context_buffer' =
                     (IF Len(context_buffer) = FloorChunks
                      THEN Tail(context_buffer)
                      ELSE context_buffer) \o << pending_tasks'[i].chunk_info >> ]_vars
    /\ [][ context_buffer' # context_buffer
             => \E i \in 1..Len(pending_tasks) :
                   pc = "poll" /\ Resolved(i) /\ ~is_active_listening ]_vars

\* C7 witness: the buffer is full and the first segment, appended while
\* PASSIVE, has been evicted
C7_Witness ==
    /\ Len(context_buffer) = FloorChunks
    /\ FloorChunks >= 1
    /\ tasks # << >>
    /\ tasks[1].status = "retrieved"
    /\ conversation_counter = 0
    /\ ~is_active_listening
    /\ \A i \in 1..Len(context_buffer) : context_buffer[i].audio > 1

NoDuplicates(seq) ==
    \A i, j \in 1..Len(seq) : i # j => seq[i] # seq[j]

\* C8: no segment's audio appears twice in a finalized conversation.
C8_EachSegmentOnce == NoDuplicates(conversation_file.audio)

\* C9: the step that resolves a periodic long-window task leaves the listening
\* state, the silence counter, the context buffer and the conversation record
\* unchanged and does not call the wake classifier.
C9_LongResultNoEffect ==
    [][ (\E i \in 1..Len(pending_tasks) : Resolved(i) /\ pending_tasks[i].is_long)
          => /\ UNCHANGED << is_active_listening, silence_counter, context_buffer,
                             active_conversation_chunks >>
             /\ last_classify' = last_classify ]_vars

\* C10: once the result of a periodic long-window task has been handed out, its
\* transcript file periodic_<timestamp>.txt exists.
C10_PeriodicTranscriptWritten ==
    \A t \in 1..Len(tasks) :
        (tasks[t].priority = LOW /\ tasks[t].status = "retrieved")
            => PeriodicTxt(tasks[t].audio_file[2]) \in recordings

\* the step is the timer check of lines 509-546
TimerCheck == pc = "poll" /\ poll_idx > Len(pending_tasks) /\ pc' # "poll"

\* the step submits a LOW task
SubmitsLow ==
    /\ Len(tasks') = Len(tasks) + 1
    /\ tasks'[Len(tasks')].priority = LOW

\* C11: a timer check that finds the interval elapsed while the state is PASSIVE
\* (and the context buffer non-empty) submits one LOW periodic task, whatever
\* the number of unfinished transcription tasks.
C11_PeriodicDespiteBacklog ==
    [][ (TimerCheck /\ long_due' /\ ~is_active_listening /\ context_buffer # << >>)
          => SubmitsLow ]_vars

\* C12: no step submits a LOW periodic task while the state is ACTIVE.
C12_NoPeriodicWhileActive ==
    [][ SubmitsLow => (~is_active_listening /\ ~is_active_listening') ]_vars

\* C12 witness: the timer check found the interval elapsed while ACTIVE with a
\* non-empty context buffer, and no periodic task has been submitted
C12_Witness ==
    /\ pc = "long"
    /\ long_due
    /\ is_active_listening
    /\ context_buffer # << >>
    /\ longs = 0

\* the step polls the pending record at position i: an iteration of the result
\* loop on a record that is not processed, or the loop over the long tasks
Polls(i) ==
    /\ i \in 1..Len(pending_tasks)
    /\ ~pending_tasks[i].processed
    /\ \/ pc = "poll" /\ i = poll_idx /\ (poll_idx' # poll_idx \/ pc' # pc)
       \/ pc = "long" /\ pc' # pc /\ pending_tasks[i].is_long

\* C13: a poll for a task whose worker has not finished returns None (the
\* record stays unresolved); a poll for a task whose worker has finished and
\* whose result has not been handed out returns it and removes it; a result
\* that has been handed out is not handed out again.
C13_PollOnceWhenFinished ==
    [][ /\ \A i \in 1..Len(pending_tasks) :
              Polls(i) =>
                LET t == pending_tasks[i].task_id IN
                    /\ tasks[t].status \in {"queued", "pool", "running"}
                          => /\ ~pending_tasks'[i].processed
                             /\ tasks'[t].status = tasks[t].status
                    /\ tasks[t].status = "done"
                          => /\ pending_tasks'[i].processed
                             /\ tasks'[t].status = "retrieved"
                             /\ t \notin futures'
        /\ \A t \in 1..Len(tasks) :
              tasks[t].status = "retrieved" => tasks'[t].status = "retrieved" ]_vars

Last(seq) == seq[Len(seq)]

\* the step left the segment record chunk at the end of the context buffer or
\* of the conversation record, or wrote it as the last one of a conversation
StoredLast(chunk) ==
    \/ context_buffer' # context_buffer /\ Last(context_buffer') = chunk
    \/ /\ active_conversation_chunks' # << >>
       /\ active_conversation_chunks' # active_conversation_chunks
       /\ Last(active_conversation_chunks') = chunk
    \/ /\ conversation_file' # conversation_file
       /\ Last(conversation_file'.audio) = chunk.audio

\* C14: a chunk task whose transcription failed resolves with the empty text:
\* the poll of its finished, registered future resolves the record with an
\* empty transcript, the record is appended to the context buffer or to the
\* conversation record, and the main loop goes on.
C14_FailureIsEmptyText ==
    [][ \A i \in 1..Len(pending_tasks) :
          LET t == pending_tasks[i].task_id IN
            (/\ Polls(i)
             /\ pc = "poll"
             /\ ~pending_tasks[i].is_long
             /\ t \in futures
             /\ tasks[t].status = "done"
             /\ ~tasks[t].readable)
                => /\ pending_tasks'[i].processed
                   /\ pending_tasks'[i].chunk_info.transcript = EmptyText
                   /\ StoredLast(pending_tasks'[i].chunk_info)
                   /\ pc' = "poll"
                   /\ ~error' ]_vars

\* C15: when the wake classifier raises on a PASSIVE transcript, the state stays
\* PASSIVE and the main loop goes on with the rest of the tick.
C15_ClassifierErrorIsNoMatch ==
    [][ (/\ pc = "poll"
         /\ last_classify' # last_classify
         /\ last_classify'.answer = "raise")
            => /\ ~is_active_listening'
               /\ pc' = "poll"
               /\ ~error' ]_vars

\* the tasks that are queued or executing for file f
LiveTasksOf(f) ==
    { t \in 1..Len(tasks) :
        /\ tasks[t].audio_file = f
        /\ tasks[t].status \in {"queued", "pool", "running"} }

\* C16: a file the control loop removes at the end of a tick is referred to by
\* no context buffer entry, no conversation record entry and no task that is
\* queued or executing.
C16_DeleteOnlyUnreferenced ==
    [][ \A f \in temp_files \ temp_files' :
          pc = "long"
              => /\ f \notin Files(context_buffer)
                 /\ f \notin Files(active_conversation_chunks)
                 /\ LiveTasksOf(f) = {} ]_vars

\* C18: while ACTIVE, the transcript of a segment updates the silence counter
\* with the silence flag of that segment: one more if it was silent, 0 if not
\* (and 0 again if the update finalizes the conversation).
C18_CounterUsesSegmentFlag ==
    [][ \A i \in 1..Len(pending_tasks) :
          (/\ Resolved(i)
           /\ pc = "poll"
           /\ is_active_listening
           /\ ~pending_tasks[i].is_long)
              => \/ silence_counter' =
                      (IF pending_tasks[i].is_silence THEN silence_counter + 1 ELSE 0)
                 \/ silence_counter' = 0 /\ ~is_active_listening' ]_vars

\* C19: at the start of a tick the pending set holds unresolved records only.
C19_PendingOnlyUnresolved ==
    pc = "collect" => \A i \in 1..Len(pending_tasks) : ~pending_tasks[i].processed

\* the steps of the main thread after the loop: the exit and the finally block
ShutdownStep == ExitLoop \/ Finally

\* C17: once the run flag is cleared the control loop can always take its next
\* step towards the end of the cleanup, whatever the state of the transcription
\* tasks, and when the cleanup is over no file is left in temp_dir.
C17_ShutdownCleansUp ==
    /\ (~running /\ pc # "done") => ENABLED ShutdownStep
    /\ pc = "done" => temp_files = {}

\* C17 witness: cleanup is over after a signal while a task is queued and
\* another is executing, with records in the context buffer and in pending_tasks
C17_Witness ==
    /\ pc = "done"
    /\ ~running
    /\ ~error
    /\ temp_files = {}
    /\ context_buffer # << >>
    /\ \E t \in 1..Len(tasks) : tasks[t].status = "running"
    /\ \E t \in 1..Len(tasks) : tasks[t].status = "queued"
    /\ \E i \in 1..Len(pending_tasks) :
          /\ ~pending_tasks[i].processed
          /\ ~pending_tasks[i].is_long

\* the steps of the main thread in a tick after the emission of the segment
TickStep == PollNext \/ PeriodicTimer \/ FinishTick

\* C20: in a tick that has emitted its segment the control loop can always take
\* its next step (the next poll, the timer check, the rest of the tick),
\* whatever the state of the transcription tasks: it never waits for a worker.
C20_TickNeverWaits ==
    pc \in {"poll", "long"} => ENABLED TickStep

\* C20 witness: every segment has been emitted and its tick completed while no
\* transcription has completed
C20_Witness ==
    /\ pc = "collect"
    /\ segments = MaxSegments
    /\ Len(pending_tasks) = MaxSegments
    /\ \A t \in 1..Len(tasks) : tasks[t].status \in {"queued", "pool", "running"}
    /\ \E t \in 1..Len(tasks) : tasks[t].status = "running"

\* C21: the step from PASSIVE to ACTIVE leaves the conversation record equal to
\* the context buffer as that step leaves it, in the same order, the record of
\* the waking transcript last, and the silence counter 0; while ACTIVE the
\* record changes only by the append of a record at its end.
C21_SeededWithContext ==
    [][ /\ (~is_active_listening /\ is_active_listening')
            => /\ active_conversation_chunks' = context_buffer'
               /\ silence_counter' = 0
               /\ \E i \in 1..Len(pending_tasks) :
                     /\ Resolved(i)
                     /\ active_conversation_chunks' # << >>
                     /\ Last(active_conversation_chunks') = pending_tasks'[i].chunk_info
        /\ (is_active_listening /\ is_active_listening')
            => \/ active_conversation_chunks' = active_conversation_chunks
               \/ \E i \in 1..Len(pending_tasks) :
                     /\ Resolved(i)
                     /\ active_conversation_chunks' =
                           Append(active_conversation_chunks, pending_tasks'[i].chunk_info)
       ]_vars

\* C21 witness: ACTIVE with a conversation record of two records, the waking
\* one last, and no record appended since the wake
C21_Witness ==
    /\ is_active_listening
    /\ Len(active_conversation_chunks) = 2
    /\ active_conversation_chunks = context_buffer
    /\ ~HasTrigger(active_conversation_chunks[1].transcript)
    /\ HasTrigger(active_conversation_chunks[2].transcript)

\* C22: when a task is handed to the thread pool, no task of the same priority
\* that was submitted before it is still in the priority queue.
C22_FifoWithinPriority ==
    [][ \A b \in 1..Len(tasks) :
          (tasks[b].status = "queued" /\ tasks'[b].status = "pool")
              => \A a \in 1..(b - 1) :
                    tasks[a].priority = tasks[b].priority
                        => tasks[a].status # "queued" ]_vars

\* C22 witness: two tasks of one priority wait in the pool's queue in the order
\* of their submission, the second just handed over, a third still queued
C22_Witness ==
    \E a, b, c \in 1..Len(tasks) :
        /\ a < b
        /\ b < c
        /\ tasks[a].priority = tasks[b].priority
        /\ tasks[b].priority = tasks[c].priority
        /\ pool_queue = << a, b >>
        /\ dispatching = b
        /\ c \in task_queue

\* C23: whenever the state is PASSIVE the conversation record is empty and the
\* silence counter is 0; the conversation counter starts at 0 and a step
\* increments it exactly when it goes from ACTIVE to PASSIVE.
C23_PassiveIsReset ==
    /\ conversation_counter = 0
    /\ [](~is_active_listening
            => (active_conversation_chunks = << >> /\ silence_counter = 0))
    /\ [][ conversation_counter' =
             conversation_counter
               + (IF is_active_listening /\ ~is_active_listening' THEN 1 ELSE 0) ]_vars

\* C23 witness: back in PASSIVE after a conversation that the silence counter
\* ended at the threshold 2
C23_Witness ==
    /\ ~is_active_listening
    /\ conversation_counter = 1
    /\ SilenceThreshold = 2
    /\ Len(conversation_file.audio) >= 3

\* C24: a step taken while the state is ACTIVE leaves the context buffer as it
\* is.
C24_ContextFrozenWhileActive ==
    [][ is_active_listening => context_buffer' = context_buffer ]_vars

\* C24 witness: a conversation has just been finalized after one record was
\* appended while ACTIVE, and the context buffer is what seeded it
C24_Witness ==
    /\ ~is_active_listening
    /\ conversation_counter = 1
    /\ context_buffer # << >>
    /\ \E x \in 1..MaxSegments :
          conversation_file.audio =
              Audios(context_buffer) \o Audios(context_buffer) \o << x >>

\* the text of task t is there for get_result to return
Available(t) == get_result(t) = t

====
